---- MODULE Spec2Model ----
(***************************************************************************)
(* RUTH GlobalView (src/ruth/globalview.py): the segment-indexed store of  *)
(* floating car data (FCD), its dirty-segment tracking, the per-segment    *)
(* speed aggregation, the load-ahead / level-of-service model and the      *)
(* retention step.                                                         *)
(*                                                                         *)
(* Numbers: speeds, lengths and offsets are Python floats in the source.   *)
(* The model uses exact rationals <<num, den>> in lowest terms; the        *)
(* infinite level of service float("inf") is <<1, 0>>, and None is <<>>.   *)
(***************************************************************************)
EXTENDS Integers, Sequences, FiniteSets, TLC

VARIABLES
    fcd_by_segment,     \* GlobalView.fcd_by_segment: segment id -> list of FCD records
    car_to_segment,     \* GlobalView.car_to_segment: vehicle id -> segment id
    modified_segments,  \* GlobalView.modified_segments: set of segment ids
    ret,                \* the last call: its name, arguments and return value
    since_drain,        \* history: what has been called since the last take_segment_speeds
    touched,            \* history: segments that received a record / were vacated since the last drain
    reported,           \* history: segment id -> value last returned for it by take_segment_speeds
    last_ingested,      \* history: vehicle id -> segment of the vehicle's most recently ingested record
    hdf                 \* HDF5Writer (src/ruth/data/hdf_stream_writer.py) and the file it writes

vars == <<fcd_by_segment, car_to_segment, modified_segments, ret, since_drain, touched, reported,
          last_ingested, hdf>>

----------------------------------------------------------------------------
(* Bounds and input sets *)

\* at most this many records are held by the index at a time (index scenario)
MaxRecords == 2

VehicleIds == {1, 2}
SegmentIds == {1, 2}
AllSegmentIds == {1, 2, 3}
DateTimes == {1, 2}
Speeds == {10, 20}
NoVehicle == -1

\* FCDRecord as used by GlobalView: the fields read in globalview.py
FCD(v, ty, s, off, t, sp) ==
    [vehicle_id |-> v, vehicle_type |-> ty, segment |-> s, start_offset |-> off,
     datetime |-> t, speed |-> sp]

\* records of the index scenario: one class, all at the segment start
IndexRecords ==
    {FCD(v, "car", s, 0, t, sp) : v \in VehicleIds, s \in SegmentIds, t \in DateTimes, sp \in Speeds}

Thresholds == {2, 3}

\* segments as the caller passes them: id, length (m), lanes
Segment(id, length, lanes) == [id |-> id, length |-> length, lanes |-> lanes]
IndexSegments == {Segment(1, 10, 1)}

----------------------------------------------------------------------------
(* Arithmetic helpers *)

RECURSIVE GCD(_, _)
GCD(a, b) == IF b = 0 THEN a ELSE GCD(b, a % b)

\* the rational n/d (n >= 0, d > 0) in lowest terms
Frac(n, d) == LET g == GCD(n, d) IN <<n \div g, d \div g>>

None == <<>>
Infinity == <<1, 0>>

----------------------------------------------------------------------------
(* The defaultdict(list) fcd_by_segment *)

\* self.fcd_by_segment.get(segment_id, []): no key is created
Observations(store, s) == IF s \in DOMAIN store THEN store[s] ELSE <<>>

\* self.fcd_by_segment[segment_id]: a missing key is created with an empty list
Touch(store, s) == [k \in DOMAIN store \cup {s} |-> Observations(store, k)]

RECURSIVE CountRecords(_, _)
CountRecords(store, S) ==
    IF S = {} THEN 0
    ELSE LET k == CHOOSE x \in S : TRUE IN Len(store[k]) + CountRecords(store, S \ {k})

\* the number of records held
TotalRecords(store) == CountRecords(store, DOMAIN store)

----------------------------------------------------------------------------
(* get_segment_speed *)

\* a slip: a record is placed before the records of the same datetime
InsertByDatetime_BeforeEqual(sorted, fcd) ==
    SelectSeq(sorted, LAMBDA r : r.datetime < fcd.datetime)
        \o <<fcd>> \o SelectSeq(sorted, LAMBDA r : r.datetime >= fcd.datetime)

\* list.sort(key=lambda fcd: fcd.datetime): a stable ascending sort
\* (one insertion step: after the records that are not later)
RECURSIVE InsertByDatetime(_, _)
InsertByDatetime(sorted, fcd) ==
    IF sorted = <<>> THEN <<fcd>>
    ELSE IF fcd.datetime < sorted[Len(sorted)].datetime
         THEN Append(InsertByDatetime(SubSeq(sorted, 1, Len(sorted) - 1), fcd), sorted[Len(sorted)])
         ELSE Append(sorted, fcd)

\* a slip: the snapshot is folded in storage order
SortByDatetime_Unsorted(q) == q

RECURSIVE SortByDatetime(_)
SortByDatetime(q) ==
    IF q = <<>> THEN <<>>
    ELSE InsertByDatetime(SortByDatetime(SubSeq(q, 1, Len(q) - 1)), q[Len(q)])

\* for fcd in by_segment: speeds[fcd.vehicle_id] = fcd.speed
RECURSIVE FoldSpeeds(_, _)
FoldSpeeds(q, speeds) ==
    IF q = <<>> THEN speeds
    ELSE FoldSpeeds(Tail(q),
            [v \in DOMAIN speeds \cup {Head(q).vehicle_id} |->
                IF v = Head(q).vehicle_id THEN Head(q).speed ELSE speeds[v]])

\* sum(...) over the values of a dict
RECURSIVE SumKeys(_, _)
SumKeys(f, D) == IF D = {} THEN 0 ELSE LET k == CHOOSE x \in D : TRUE IN f[k] + SumKeys(f, D \ {k})

SumOver(f) == SumKeys(f, DOMAIN f)

\* a slip: the mean of no speeds is reported as zero
SpeedOf_ZeroWhenEmpty(store, s) ==
    LET by_segment == SortByDatetime(Observations(store, s))
        speeds == FoldSpeeds(by_segment, <<>>)
    IN IF Cardinality(DOMAIN speeds) = 0 THEN <<0, 1>>
       ELSE Frac(SumOver(speeds), Cardinality(DOMAIN speeds))

\* the value get_segment_speed returns on a store
SpeedOf(store, s) ==
    LET by_segment == SortByDatetime(Observations(store, s))
        speeds == FoldSpeeds(by_segment, <<>>)
    IN IF Cardinality(DOMAIN speeds) = 0 THEN None
       ELSE Frac(SumOver(speeds), Cardinality(DOMAIN speeds))

----------------------------------------------------------------------------
(* load_ahead and the level of service *)

\* DEFAULT_VEHICLE_CLASSES of ruth/vehicle_types.py: name -> parameters.
\* "car" is the class of the specification's end-to-end scenario (pcu 1,
\* length 5 m, gap 2 m); "truck" is a heavier and longer class.
DEFAULT_VEHICLE_CLASSES ==
    [car |-> [name |-> "car", pcu |-> 1, length_m |-> 5, standstill_gap_m |-> 2],
     truck |-> [name |-> "truck", pcu |-> 3, length_m |-> 12, standstill_gap_m |-> 3]]

\* DEFAULT_VEHICLE_CLASSES.get(fcd.vehicle_type, DEFAULT_VEHICLE_CLASSES["car"])
ClassOf(vehicle_type) ==
    IF vehicle_type \in DOMAIN DEFAULT_VEHICLE_CLASSES
    THEN DEFAULT_VEHICLE_CLASSES[vehicle_type]
    ELSE DEFAULT_VEHICLE_CLASSES["car"]

\* tolerance if tolerance is not None else timedelta(seconds=0); a given tolerance d is <<d>>
ToleranceOf(tolerance) == IF tolerance = None THEN 0 ELSE tolerance[1]

\* the test of lines 44-45 on one record
CountsAhead(fcd, datetime, tol, vehicle_id, vehicle_offset_m) ==
    /\ datetime - tol <= fcd.datetime
    /\ fcd.datetime <= datetime + tol
    /\ fcd.vehicle_id # vehicle_id
    /\ fcd.start_offset > vehicle_offset_m

\* a slip: a later record of a vehicle already counted overwrites its parameters
Counted_Overwrite(vehicles_ahead, fcd) ==
    [v \in DOMAIN vehicles_ahead \cup {fcd.vehicle_id} |->
        IF v = fcd.vehicle_id THEN ClassOf(fcd.vehicle_type) ELSE vehicles_ahead[v]]

\* lines 46-48 on a record that passed the test: only a vehicle not yet counted is entered
Counted(vehicles_ahead, fcd) ==
    IF fcd.vehicle_id \notin DOMAIN vehicles_ahead
    THEN [v \in DOMAIN vehicles_ahead \cup {fcd.vehicle_id} |->
            IF v = fcd.vehicle_id THEN ClassOf(fcd.vehicle_type) ELSE vehicles_ahead[v]]
    ELSE vehicles_ahead

\* the loop of load_ahead over the records in storage order
RECURSIVE ScanAhead(_, _, _, _, _, _)
ScanAhead(q, datetime, tol, vehicle_id, vehicle_offset_m, vehicles_ahead) ==
    IF q = <<>> THEN vehicles_ahead
    ELSE ScanAhead(Tail(q), datetime, tol, vehicle_id, vehicle_offset_m,
                   IF CountsAhead(Head(q), datetime, tol, vehicle_id, vehicle_offset_m)
                   THEN Counted(vehicles_ahead, Head(q))
                   ELSE vehicles_ahead)

\* the value load_ahead returns on a store
LoadAhead(store, datetime, segment_id, tolerance, vehicle_id, vehicle_offset_m) ==
    LET vehicles_ahead == ScanAhead(Observations(store, segment_id), datetime,
                                    ToleranceOf(tolerance), vehicle_id, vehicle_offset_m, <<>>)
    IN [total_pcu |-> SumOver([v \in DOMAIN vehicles_ahead |-> vehicles_ahead[v].pcu]),
        total_occupied_length |->
            SumOver([v \in DOMAIN vehicles_ahead |->
                        vehicles_ahead[v].length_m + vehicles_ahead[v].standstill_gap_m]),
        vehicles_ahead |-> vehicles_ahead]

\* mile = 1609.344 m, in millimetres
MileMm == 1609344
\* ending_length = 200 (metres)
ending_length == 200
\* segment.length >= 10.0
JamMinLength == 10

\* ranges: <<low, high, m, n>> with the output ends m, n in fifths (0.2 = 1/5)
ranges ==
    << <<0, 12, 0, 1>>, <<12, 20, 1, 2>>, <<20, 30, 2, 3>>, <<30, 42, 3, 4>>, <<42, 67, 4, 5>> >>

\* n_vehicles_per_mile as the rational <<num, den>> (lines 81-87)
Density(sum_pcu, segment, vehicle_offset_m) ==
    LET rest_segment_length == segment.length - vehicle_offset_m
    IN IF rest_segment_length < ending_length
       THEN <<sum_pcu * MileMm, 1000 * ending_length>>
       ELSE <<sum_pcu * MileMm, 1000 * rest_segment_length * segment.lanes>>

\* a slip: the bands are closed at their upper end
Below_OrAt(n, high) == n[1] <= high * n[2]

\* n_vehicles_per_mile < high
Below(n, high) == n[1] < high * n[2]

\* the index of the first band with n_vehicles_per_mile < high, 0 when there is none
BandOf(n) ==
    IF \E i \in 1..Len(ranges) : Below(n, ranges[i][2])
    THEN CHOOSE i \in 1..Len(ranges) :
            /\ Below(n, ranges[i][2])
            /\ \A j \in 1..(i - 1) : ~Below(n, ranges[j][2])
    ELSE 0

\* a slip: the place in the band is measured from the band's upper end
Interpolate_FromHigh(i, n) ==
    LET high == ranges[i][2]
        d == ranges[i][2] - ranges[i][1]
        m == ranges[i][3]
    IN <<m * n[2] * d + (high * n[2] - n[1]), 5 * n[2] * d>>

\* m + (n_vehicles_per_mile - low) * 0.2 / d in band i, as <<num, den>> (not reduced)
Interpolate(i, n) ==
    LET low == ranges[i][1]
        d == ranges[i][2] - ranges[i][1]
        m == ranges[i][3]
    IN <<m * n[2] * d + (n[1] - low * n[2]), 5 * n[2] * d>>

\* the local los after the loop of lines 89-95
RawLevel(n) ==
    LET i == BandOf(n)
    IN IF i = 0 THEN Infinity
       ELSE LET r == Interpolate(i, n) IN Frac(r[1], r[2])

\* a slip: the raw level is returned as it is
Reported_Raw(los) == los

\* return los if los == float("inf") else 1.0 - los
Reported(los) == IF los = Infinity THEN Infinity ELSE Frac(los[2] - los[1], los[2])

\* a slip: a segment of exactly 10 m is not checked
JamTriggered_LongerOnly(load, segment, vehicle_offset_m, limit_vehicle_count) ==
    /\ limit_vehicle_count
    /\ vehicle_offset_m = 0
    /\ segment.length > JamMinLength
    /\ load.total_occupied_length > segment.length - vehicle_offset_m

\* the jam short-circuit of lines 68-76
JamTriggered(load, segment, vehicle_offset_m, limit_vehicle_count) ==
    /\ limit_vehicle_count
    /\ vehicle_offset_m = 0
    /\ segment.length >= JamMinLength
    /\ load.total_occupied_length > segment.length - vehicle_offset_m

\* the value level_of_service_in_front_of_vehicle returns on a store
LevelOfService(store, datetime, segment, vehicle_id, vehicle_offset_m, tolerance, limit_vehicle_count) ==
    LET load == LoadAhead(store, datetime, segment.id, tolerance, vehicle_id, vehicle_offset_m)
    IN IF JamTriggered(load, segment, vehicle_offset_m, limit_vehicle_count)
       THEN Infinity
       ELSE Reported(RawLevel(Density(load.total_pcu, segment, vehicle_offset_m)))

----------------------------------------------------------------------------
(* Operations *)

\* no HDF5Writer constructed yet, and no file: on_disk is the flushed 'results' dataset,
\* dataset the open writer's view of it, index self.index; opened_at is history
\* (the number of records the file held when the writer was constructed)
NoWriter == [open |-> FALSE, on_disk |-> <<>>, dataset |-> <<>>, index |-> 0, opened_at |-> 0]

\* nothing received or vacated: the history right after a drain
NoneTouched == [received |-> {}, vacated |-> {}]

Init ==
    /\ fcd_by_segment = <<>>
    /\ car_to_segment = <<>>
    /\ modified_segments = {}
    /\ ret = [op |-> "__init__"]
    /\ since_drain = "none"
    /\ touched = NoneTouched
    /\ reported = [s \in AllSegmentIds |-> None]
    /\ last_ingested = <<>>
    /\ hdf = NoWriter

\* a mutation other than the drain: the history of "what happened since the last drain"
Mutated(kind) ==
    since_drain' = IF since_drain = "none" THEN "none"
                   ELSE IF since_drain \in {"clean", "adds"} /\ kind = "add" THEN "adds"
                   ELSE IF since_drain \in {"clean", "drops"} /\ kind = "drop_old" THEN "drops"
                   ELSE "mixed"

\* a slip: the segment a vehicle leaves is not marked
MarkedByAdd_OwnOnly(fcd) == {fcd.segment}

\* the segments add marks as modified (lines 27-31)
MarkedByAdd(fcd) ==
    LET old_segment == IF fcd.vehicle_id \in DOMAIN car_to_segment
                       THEN {car_to_segment[fcd.vehicle_id]} ELSE {}
    IN {fcd.segment} \cup {o \in old_segment : o # fcd.segment}

\* a slip: a record equal to one already held is not appended
Appended_Deduplicated(q, fcd) ==
    IF \E i \in 1..Len(q) : q[i] = fcd THEN q ELSE Append(q, fcd)

\* self.fcd_by_segment[fcd.segment.id].append(fcd)
Appended(q, fcd) == Append(q, fcd)

\* a slip: the segment of a vehicle already known is never updated
CarToSegmentAfterAdd_FirstWins(fcd) ==
    [k \in DOMAIN car_to_segment \cup {fcd.vehicle_id} |->
        IF k \in DOMAIN car_to_segment THEN car_to_segment[k] ELSE fcd.segment]

\* car_to_segment after lines 28-34: both branches that assign store fcd.segment.id,
\* the branch that assigns nothing is the one where it is stored already
CarToSegmentAfterAdd(fcd) ==
    LET v == fcd.vehicle_id
        old_segment == IF v \in DOMAIN car_to_segment THEN {car_to_segment[v]} ELSE {}
    IN IF old_segment # {} /\ old_segment = {fcd.segment}
       THEN car_to_segment
       ELSE [k \in DOMAIN car_to_segment \cup {v} |->
                IF k = v THEN fcd.segment ELSE car_to_segment[k]]

add(fcd) ==
    LET s == fcd.segment
        v == fcd.vehicle_id
        known == v \in DOMAIN car_to_segment
    IN
    /\ fcd_by_segment' = [Touch(fcd_by_segment, s) EXCEPT ![s] = Appended(@, fcd)]
    /\ modified_segments' = modified_segments \cup MarkedByAdd(fcd)
    /\ car_to_segment' = CarToSegmentAfterAdd(fcd)
    /\ last_ingested' = [k \in DOMAIN last_ingested \cup {v} |->
                             IF k = v THEN s ELSE last_ingested[k]]
    /\ ret' = [op |-> "add", fcd |-> fcd, result |-> None]
    /\ Mutated("add")
    /\ touched' = IF since_drain' = "adds"
                  THEN [received |-> touched.received \cup {s},
                        vacated |-> touched.vacated \cup
                            (IF known /\ car_to_segment'[v] # car_to_segment[v]
                             THEN {car_to_segment[v]} ELSE {})]
                  ELSE NoneTouched
    /\ UNCHANGED <<reported, hdf>>

\* a slip: the list is sorted in place, not a copy of it
StoreAfterSpeedQuery_SortedInPlace(s) ==
    [Touch(fcd_by_segment, s) EXCEPT ![s] = SortByDatetime(@)]

\* fcd_by_segment after get_segment_speed: list(self.fcd_by_segment[segment_id]) creates
\* a missing key and copies the list, the sort works on the copy (lines 116-117)
StoreAfterSpeedQuery(s) == Touch(fcd_by_segment, s)

get_segment_speed(s) ==
    /\ fcd_by_segment' = StoreAfterSpeedQuery(s)
    /\ ret' = [op |-> "get_segment_speed", segment_id |-> s, result |-> SpeedOf(fcd_by_segment, s)]
    /\ UNCHANGED <<car_to_segment, modified_segments, since_drain, touched, reported,
                   last_ingested, hdf>>

\* a slip: the drain leaves the set as it is
DirtyAfterTake_Kept == modified_segments

\* self.modified_segments.clear()
DirtyAfterTake == {}

take_segment_speeds ==
    LET speeds == [s \in modified_segments |-> SpeedOf(fcd_by_segment, s)]
    IN
    /\ ret' = [op |-> "take_segment_speeds", result |-> speeds,
               pre |-> [since |-> since_drain, touched |-> touched]]
    /\ fcd_by_segment' = [k \in DOMAIN fcd_by_segment \cup modified_segments |->
                              Observations(fcd_by_segment, k)]
    /\ modified_segments' = DirtyAfterTake
    /\ since_drain' = "clean"
    /\ touched' = NoneTouched
    /\ reported' = [s \in AllSegmentIds |-> IF s \in DOMAIN speeds THEN speeds[s] ELSE reported[s]]
    /\ UNCHANGED <<car_to_segment, last_ingested, hdf>>

\* a slip: the set is cleared before the speeds are computed
DirtyAfterRaise_Cleared == {}

\* modified_segments when get_segment_speed raises inside the loop of lines 109-110:
\* the exception leaves take_segment_speeds before line 111
DirtyAfterRaise == modified_segments

\* take_segment_speeds when the speed computation of the dirty segment `failing` raises,
\* after the segments `done` were computed (a set is iterated in no fixed order)
take_segment_speeds_raises(done, failing) ==
    /\ failing \in modified_segments
    /\ done \subseteq modified_segments \ {failing}
    /\ ret' = [op |-> "take_segment_speeds raised", done |-> done, failing |-> failing,
               pre |-> [modified |-> modified_segments]]
    /\ fcd_by_segment' = [k \in DOMAIN fcd_by_segment \cup done \cup {failing} |->
                              Observations(fcd_by_segment, k)]
    /\ modified_segments' = DirtyAfterRaise
    /\ UNCHANGED <<car_to_segment, since_drain, touched, reported, last_ingested, hdf>>

\* a slip: a record at the threshold is dropped too
KeepFrom_After(q, th) == SelectSeq(q, LAMBDA fcd : fcd.datetime > th)

\* [fcd for fcd in ... if fcd.datetime >= dt_threshold]
RECURSIVE KeepFrom(_, _)
KeepFrom(q, th) ==
    IF q = <<>> THEN <<>>
    ELSE IF Head(q).datetime >= th THEN <<Head(q)>> \o KeepFrom(Tail(q), th)
         ELSE KeepFrom(Tail(q), th)

\* the segments whose list drop_old replaces: len(new_fcds) != len(old_fcds)
ChangedByDrop(th) ==
    {s \in DOMAIN fcd_by_segment : Len(KeepFrom(fcd_by_segment[s], th)) # Len(fcd_by_segment[s])}

\* a slip: retention marks nothing
MarkedByDrop_Nothing(th) == {}

\* the segments drop_old marks as modified: those whose list it replaces (line 131)
MarkedByDrop(th) == ChangedByDrop(th)

drop_old(th) ==
    LET changed == ChangedByDrop(th)
    IN
    /\ fcd_by_segment' = [s \in DOMAIN fcd_by_segment |->
                              IF s \in changed THEN KeepFrom(fcd_by_segment[s], th)
                              ELSE fcd_by_segment[s]]
    /\ modified_segments' = modified_segments \cup MarkedByDrop(th)
    /\ ret' = [op |-> "drop_old", dt_threshold |-> th, result |-> None]
    /\ Mutated("drop_old")
    /\ touched' = NoneTouched
    /\ UNCHANGED <<car_to_segment, reported, last_ingested, hdf>>


\* a slip: a query resets the dirty set
Query_Clearing ==
    /\ modified_segments' = {}
    /\ UNCHANGED <<fcd_by_segment, car_to_segment, since_drain, touched, reported, last_ingested, hdf>>

Query == UNCHANGED <<fcd_by_segment, car_to_segment, modified_segments, since_drain, touched, reported, last_ingested, hdf>>

load_ahead(datetime, segment_id, tolerance, vehicle_id, vehicle_offset_m) ==
    /\ ret' = [op |-> "load_ahead", datetime |-> datetime, segment_id |-> segment_id,
               tolerance |-> tolerance, vehicle_id |-> vehicle_id,
               vehicle_offset_m |-> vehicle_offset_m,
               result |-> LoadAhead(fcd_by_segment, datetime, segment_id, tolerance,
                                    vehicle_id, vehicle_offset_m)]
    /\ Query

level_of_service_in_front_of_vehicle(datetime, segment, vehicle_id, vehicle_offset_m, tolerance, limit_vehicle_count) ==
    /\ ret' = [op |-> "level_of_service_in_front_of_vehicle", datetime |-> datetime,
               segment |-> segment, vehicle_id |-> vehicle_id,
               vehicle_offset_m |-> vehicle_offset_m, tolerance |-> tolerance,
               limit_vehicle_count |-> limit_vehicle_count,
               result |-> LevelOfService(fcd_by_segment, datetime, segment, vehicle_id,
                                         vehicle_offset_m, tolerance, limit_vehicle_count)]
    /\ Query

\* a slip: the convenience form asks for the counting mode
level_of_service_in_time_at_segment_Counting(datetime, segment) ==
    /\ ret' = [op |-> "level_of_service_in_time_at_segment", datetime |-> datetime,
               segment |-> segment,
               result |-> LevelOfService(fcd_by_segment, datetime, segment, NoVehicle, 0,
                                         None, TRUE)]
    /\ Query

level_of_service_in_time_at_segment(datetime, segment) ==
    /\ ret' = [op |-> "level_of_service_in_time_at_segment", datetime |-> datetime,
               segment |-> segment,
               result |-> LevelOfService(fcd_by_segment, datetime, segment, NoVehicle, 0,
                                         None, FALSE)]
    /\ Query

\* lines 89-98 alone, applied to a given density
level_of_density(n) ==
    /\ ret' = [op |-> "level_of_density", density |-> n, result |-> Reported(RawLevel(n))]
    /\ Query


----------------------------------------------------------------------------
(* HDF5Writer: the append-only result sink *)

\* the fields of the compound dtype the model keeps (lines 9-17)
DtypeNames == {"vehicle_id", "speed", "status"}

\* structured[0][field] = record[field] for the dtype's fields: other keys of the record are not stored
Structured(record) == [field \in DtypeNames |-> record[field]]

\* np.zeros(1, dtype): the value of a slot that resize added and nothing wrote
ZeroRecord == [field \in DtypeNames |-> IF field = "status" THEN "" ELSE 0]

\* self.dataset.resize((n,)): cut to n slots or filled up to n slots
Resized(dataset, n) ==
    [i \in 1..n |-> IF i <= Len(dataset) THEN dataset[i] ELSE ZeroRecord]

\* self.index = self.dataset.shape[0]
IndexAtOpen(dataset) == Len(dataset)

\* HDF5Writer(filename): mode 'a' opens or creates the file, 'results' is created empty if missing
HDF5Writer_init ==
    /\ ~hdf.open
    /\ hdf' = [open |-> TRUE, on_disk |-> hdf.on_disk, dataset |-> hdf.on_disk,
               index |-> IndexAtOpen(hdf.on_disk), opened_at |-> Len(hdf.on_disk)]
    /\ ret' = [op |-> "HDF5Writer.__init__"]
    /\ UNCHANGED <<fcd_by_segment, car_to_segment, modified_segments, since_drain, touched,
                   reported, last_ingested>>

\* HDF5Writer.append(record): resize, write at self.index, count, flush.
\* record[field] raises KeyError for a record without one of the dtype's fields:
\* that is line 39, after the resize of line 32 and before lines 41-43
HDF5Writer_append(record) ==
    /\ hdf.open
    /\ LET grown == Resized(hdf.dataset, hdf.index + 1)
       IN IF DtypeNames \subseteq DOMAIN record
          THEN LET written == [grown EXCEPT ![hdf.index + 1] = Structured(record)]
               IN /\ hdf' = [hdf EXCEPT !.dataset = written, !.index = hdf.index + 1,
                                        !.on_disk = written]
                  /\ ret' = [op |-> "HDF5Writer.append", record |-> record]
          ELSE /\ hdf' = [hdf EXCEPT !.dataset = grown]
               /\ ret' = [op |-> "HDF5Writer.append raised", record |-> record]
    /\ UNCHANGED <<fcd_by_segment, car_to_segment, modified_segments, since_drain, touched,
                   reported, last_ingested>>

\* HDF5Writer.close(): self.file.close() writes the file out
HDF5Writer_close ==
    /\ hdf.open
    /\ hdf' = [hdf EXCEPT !.open = FALSE, !.on_disk = hdf.dataset]
    /\ ret' = [op |-> "HDF5Writer.close"]
    /\ UNCHANGED <<fcd_by_segment, car_to_segment, modified_segments, since_drain, touched,
                   reported, last_ingested>>

----------------------------------------------------------------------------
(* Index scenario: ingestion, retention, drain and speed queries *)

Next ==
    \/ TotalRecords(fcd_by_segment) < MaxRecords /\ \E fcd \in IndexRecords : add(fcd)
    \/ \E th \in Thresholds : drop_old(th)
    \/ take_segment_speeds
    \/ \E s \in SegmentIds : get_segment_speed(s)
    \/ \E seg \in IndexSegments : level_of_service_in_time_at_segment(2, seg)

Spec == Init /\ [][Next]_vars

----------------------------------------------------------------------------
(* Retention scenario: longer histories of records that differ in vehicle, segment and time *)

MaxRetained == 3

RetentionRecords ==
    {FCD(v, "car", s, 0, t, 10) : v \in VehicleIds, s \in SegmentIds, t \in DateTimes}

NextRetention ==
    \/ TotalRecords(fcd_by_segment) < MaxRetained /\ \E fcd \in RetentionRecords : add(fcd)
    \/ \E th \in Thresholds : drop_old(th)
    \/ take_segment_speeds

SpecRetention == Init /\ [][NextRetention]_vars

----------------------------------------------------------------------------
(* Load scenario: which records load_ahead counts *)

MaxLoadRecords == 2

VehicleTypes == {"truck", "bus"}
Offsets == {0, 5}
Tolerances == {None, <<1>>}
QueryTimes == {1}

LoadRecords ==
    {FCD(v, ty, s, off, t, 10) : v \in VehicleIds, ty \in VehicleTypes, s \in SegmentIds,
                                 off \in Offsets, t \in DateTimes}

NextLoad ==
    \/ TotalRecords(fcd_by_segment) < MaxLoadRecords /\ \E fcd \in LoadRecords : add(fcd)
    \/ \E t \in QueryTimes, s \in SegmentIds, tol \in Tolerances,
          v \in {NoVehicle, 1}, off \in Offsets : load_ahead(t, s, tol, v, off)

SpecLoad == Init /\ [][NextLoad]_vars

----------------------------------------------------------------------------
(* Level-of-service scenario: the jam short-circuit and the density model *)

MaxJamRecords == 3

JamVehicleIds == {1, 2, 3}
JamSegmentIds == {1, 2, 3}

\* one segment long enough for the jam check, one shorter than 10 m, one longer than 200 m
Segments == {Segment(1, 10, 1), Segment(2, 8, 1), Segment(3, 500, 2)}

JamRecords ==
    {FCD(v, "truck", s, 8, 1, 10) : v \in JamVehicleIds, s \in JamSegmentIds}

NextLoS ==
    \/ TotalRecords(fcd_by_segment) < MaxJamRecords /\ \E fcd \in JamRecords : add(fcd)
    \/ \E t \in QueryTimes, seg \in Segments, off \in Offsets, limit \in BOOLEAN :
            level_of_service_in_front_of_vehicle(t, seg, 1, off, None, limit)
    \/ \E t \in QueryTimes, seg \in Segments : level_of_service_in_time_at_segment(t, seg)

SpecLoS == Init /\ [][NextLoS]_vars

----------------------------------------------------------------------------
(* Band scenario: the piecewise-linear lookup on densities in quarters of a vehicle per mile *)

MaxDensityQuarters == 280

NextBands == \E q \in 0..MaxDensityQuarters : level_of_density(<<q, 4>>)

SpecBands == Init /\ [][NextBands]_vars

----------------------------------------------------------------------------
(* Whole-interface scenario: every operation of GlobalView, a failing drain included *)

MaxHeld == 2

AllRecords ==
    {FCD(v, "truck", s, 5, t, 10) : v \in VehicleIds, s \in SegmentIds, t \in DateTimes}

NextAll ==
    \/ TotalRecords(fcd_by_segment) < MaxHeld /\ \E fcd \in AllRecords : add(fcd)
    \/ \E th \in Thresholds : drop_old(th)
    \/ take_segment_speeds
    \/ \E failing \in SegmentIds, done \in SUBSET SegmentIds : take_segment_speeds_raises(done, failing)
    \/ \E s \in AllSegmentIds : get_segment_speed(s)
    \/ \E s \in SegmentIds : load_ahead(2, s, None, NoVehicle, 0)
    \/ \E seg \in IndexSegments : level_of_service_in_front_of_vehicle(2, seg, 1, 0, None, TRUE)
    \/ \E seg \in IndexSegments : level_of_service_in_time_at_segment(2, seg)

SpecAll == Init /\ [][NextAll]_vars

----------------------------------------------------------------------------
(* Writer scenario: a file that writers open, append to and close, one after the other *)

MaxStored == 3

SinkRecords ==
    {[vehicle_id |-> v, speed |-> sp, status |-> "ok", comment |-> "not a field of the dtype"] :
        v \in VehicleIds, sp \in Speeds}
    \cup {[vehicle_id |-> v, speed |-> 10] : v \in VehicleIds}

NextWriter ==
    \/ HDF5Writer_init
    \/ Len(hdf.dataset) < MaxStored /\ \E record \in SinkRecords : HDF5Writer_append(record)
    \/ HDF5Writer_close

SpecWriter == Init /\ [][NextWriter]_vars

----------------------------------------------------------------------------
(* Claims about the index *)

IsTake == ret.op = "take_segment_speeds"

\* C1: starting right after a drain and after add calls only, the keys of the
\* next take_segment_speeds result are exactly the segments that received a
\* record plus the segments vacated by a vehicle whose add changed its recorded
\* segment; no other segment appears.
C1_DrainReportsTouched ==
    (IsTake /\ ret.pre.since \in {"clean", "adds"}) =>
        DOMAIN ret.result = ret.pre.touched.received \cup ret.pre.touched.vacated

\* a drain after adds only whose result holds a segment that received nothing but was vacated
C1_Witness ==
    /\ IsTake
    /\ ret.pre.since = "adds"
    /\ \E s \in ret.pre.touched.vacated : s \notin ret.pre.touched.received /\ s \in DOMAIN ret.result

\* C2: in every reachable state, a segment whose current get_segment_speed value
\* differs from the value take_segment_speeds last returned for it (None when
\* it was never returned) is in modified_segments.
C2_DirtyNeverUnderReports ==
    \A s \in AllSegmentIds :
        SpeedOf(fcd_by_segment, s) # reported[s] => s \in modified_segments

\* retention has changed the speed of a segment whose speed had been reported
C2_Witness ==
    /\ ret.op = "drop_old"
    /\ \E s \in AllSegmentIds :
        /\ reported[s] # None
        /\ SpeedOf(fcd_by_segment, s) # reported[s]
        /\ s \in modified_segments

VehiclesIn(q) == {q[i].vehicle_id : i \in 1..Len(q)}

\* x is the mean, over the vehicles of q, of the speed of an observation of
\* the vehicle that no observation of the same vehicle is later than
IsMeanOfLatest(x, q) ==
    \E latest \in [VehiclesIn(q) -> 1..Len(q)] :
        /\ \A v \in VehiclesIn(q) :
            /\ q[latest[v]].vehicle_id = v
            /\ \A j \in 1..Len(q) :
                q[j].vehicle_id = v => q[j].datetime <= q[latest[v]].datetime
        /\ x[1] * Cardinality(VehiclesIn(q))
             = x[2] * SumOver([v \in VehiclesIn(q) |-> q[latest[v]].speed])

\* C3: for a segment with at least one observation, get_segment_speed returns
\* the arithmetic mean, over the distinct vehicles observed on it, of the speed
\* of each vehicle's observation with the greatest timestamp, whatever the
\* order of ingestion.
C3_SpeedIsMeanOfLatest ==
    (ret.op = "get_segment_speed" /\ Observations(fcd_by_segment, ret.segment_id) # <<>>) =>
        /\ ret.result # None
        /\ IsMeanOfLatest(ret.result, fcd_by_segment[ret.segment_id])

\* a speed query on a segment where a vehicle's later observation was ingested first
C3_Witness ==
    /\ ret.op = "get_segment_speed"
    /\ LET q == Observations(fcd_by_segment, ret.segment_id)
       IN \E i, j \in 1..Len(q) :
            /\ i < j
            /\ q[i].vehicle_id = q[j].vehicle_id
            /\ q[i].datetime > q[j].datetime
            /\ q[i].speed # q[j].speed
            /\ ret.result = <<q[i].speed, 1>>

\* q2 holds, in the order of q, exactly the records of q with datetime >= th
IsOrderedSurvivors(q, q2, th) ==
    \E pos \in [1..Len(q2) -> 1..Len(q)] :
        /\ \A i, j \in 1..Len(q2) : i < j => pos[i] < pos[j]
        /\ {pos[i] : i \in 1..Len(q2)} = {k \in 1..Len(q) : q[k].datetime >= th}
        /\ \A i \in 1..Len(q2) : q2[i] = q[pos[i]]

\* C4: drop_old(threshold) removes from every segment exactly the observations
\* with datetime < threshold (one at the threshold is kept), keeps the
\* survivors in their order, and adds to the dirty set only the segments whose
\* observation count changed.
C4_DropOldExact ==
    [][ret'.op = "drop_old" =>
          /\ DOMAIN fcd_by_segment' = DOMAIN fcd_by_segment
          /\ \A s \in DOMAIN fcd_by_segment :
                IsOrderedSurvivors(fcd_by_segment[s], fcd_by_segment'[s], ret'.dt_threshold)
          /\ modified_segments' = modified_segments \cup
                {s \in DOMAIN fcd_by_segment : Len(fcd_by_segment'[s]) # Len(fcd_by_segment[s])}
      ]_vars

\* only retention ran since the drain, it shortened a segment (so marked it)
\* and two different records, one of them at the threshold, survive on it
C4_Witness ==
    /\ ret.op = "drop_old"
    /\ since_drain = "drops"
    /\ \E s \in modified_segments :
        /\ Len(fcd_by_segment[s]) = 2
        /\ fcd_by_segment[s][1] # fcd_by_segment[s][2]
        /\ fcd_by_segment[s][1].datetime = ret.dt_threshold

\* C5: a take_segment_speeds call with no add or drop_old since the previous
\* take_segment_speeds call (queries may lie between them) returns an empty mapping.
C5_SecondDrainEmpty ==
    (IsTake /\ ret.pre.since = "clean") => DOMAIN ret.result = {}

\* a second drain in a row after a first one that had reported a speed
C5_Witness ==
    /\ IsTake
    /\ ret.pre.since = "clean"
    /\ \E s \in AllSegmentIds : reported[s] # None


----------------------------------------------------------------------------
(* Claims about load_ahead and the level of service *)

IsFront == ret.op = "level_of_service_in_front_of_vehicle"
IsAtSegment == ret.op = "level_of_service_in_time_at_segment"
IsLoad == ret.op = "load_ahead"

\* the load the last level-of-service call saw (a query leaves the store as it is)
LoadSeen ==
    IF IsFront
    THEN LoadAhead(fcd_by_segment, ret.datetime, ret.segment.id, ret.tolerance,
                   ret.vehicle_id, ret.vehicle_offset_m)
    ELSE LoadAhead(fcd_by_segment, ret.datetime, ret.segment.id, None, NoVehicle, 0)

OffsetSeen == IF IsFront THEN ret.vehicle_offset_m ELSE 0

\* the normalized density of the last level-of-service call is at or above 67 veh/mi
DensityAtLeast67 ==
    LET n == Density(LoadSeen.total_pcu, ret.segment, OffsetSeen)
    IN n[1] >= 67 * n[2]

\* the conditions of the jam short-circuit, for a call in front of a vehicle
JamConditions ==
    /\ ret.limit_vehicle_count
    /\ ret.vehicle_offset_m = 0
    /\ ret.segment.length >= 10
    /\ LoadSeen.total_occupied_length > ret.segment.length - ret.vehicle_offset_m

\* C6: a call with limit_vehicle_count enabled, reference offset 0 and segment
\* length at least 10 in which the summed (length + gap) of the vehicles counted
\* ahead exceeds segment.length - offset returns the infinite sentinel,
\* whatever the density model would give.
C6_JamIsInfinite ==
    (IsFront /\ JamConditions) => ret.result = Infinity

\* the short-circuit fired on a 10 m segment while the density is below 67 veh/mi
C6_Witness ==
    /\ IsFront
    /\ JamConditions
    /\ ret.segment.length = 10
    /\ ~DensityAtLeast67
    /\ ret.result = Infinity

\* C7: the result is the infinite sentinel exactly when the jam short-circuit
\* fires or the normalized density is at or above 67 veh/mi; the convenience
\* form, which does not ask for the counting mode, is infinite only when the
\* density is at or above 67.
C7_InfiniteIffJamOrDense ==
    /\ IsFront => (ret.result = Infinity <=> (JamConditions \/ DensityAtLeast67))
    /\ IsAtSegment => (ret.result = Infinity <=> DensityAtLeast67)

\* the convenience form gave a finite score although the vehicles on a 10 m
\* segment occupy more than its length
C7_Witness ==
    /\ IsAtSegment
    /\ ret.segment.length >= 10
    /\ LoadSeen.total_occupied_length > ret.segment.length
    /\ ret.result # Infinity

\* the convenience form gave the infinite sentinel
C7_WitnessDense == IsAtSegment /\ ret.result = Infinity

\* the vehicles with an observation on the queried segment inside the time window
VehiclesInWindow ==
    LET q == Observations(fcd_by_segment, ret.segment_id)
        tol == IF ret.tolerance = None THEN 0 ELSE ret.tolerance[1]
    IN {q[i].vehicle_id : i \in {k \in 1..Len(q) :
            ret.datetime - tol <= q[k].datetime /\ q[k].datetime <= ret.datetime + tol}}

\* C8: with no reference vehicle (default vehicle_id and offset), every vehicle
\* that has an observation on the segment inside the time window is counted in
\* the load, vehicles at start_offset 0 included.
C8_AllVehiclesCounted ==
    (IsLoad /\ ret.vehicle_id = NoVehicle /\ ret.vehicle_offset_m = 0) =>
        DOMAIN ret.result.vehicles_ahead = VehiclesInWindow

\* the indices of the observations of the queried segment that qualify
Qualifying ==
    LET q == Observations(fcd_by_segment, ret.segment_id)
        tol == IF ret.tolerance = None THEN 0 ELSE ret.tolerance[1]
    IN {k \in 1..Len(q) :
            /\ ret.datetime - tol <= q[k].datetime
            /\ q[k].datetime <= ret.datetime + tol
            /\ q[k].vehicle_id # ret.vehicle_id
            /\ q[k].start_offset > ret.vehicle_offset_m}

\* the first qualifying observation of vehicle v in storage order
FirstQualifying(v) ==
    LET q == Observations(fcd_by_segment, ret.segment_id)
        own == {k \in Qualifying : q[k].vehicle_id = v}
    IN q[CHOOSE k \in own : \A j \in own : k <= j]

Boundaries == {<<12, 1, 12>>, <<20, 2, 8>>, <<30, 3, 10>>, <<42, 4, 12>>}

\* the raw level rises by exactly step/(5 * width) from density n - step to n (all in quarters)
NoJumpBelow(q, width) ==
    LET here == RawLevel(<<q, 4>>)
        below == RawLevel(<<q - 1, 4>>)
    IN (here[1] * below[2] - below[1] * here[2]) * 20 * width = here[2] * below[2]

\* C10: the bands are half-open: a density exactly at a band boundary (12, 20,
\* 30 or 42 veh/mi) is mapped by the higher band to that band's low output end
\* (density 12: raw 0.2, reported 0.8), and the raw value is continuous across
\* each boundary.
C10_BoundaryInHigherBand ==
    ret.op = "level_of_density" =>
        \A b \in Boundaries :
            ret.density[1] = b[1] * ret.density[2] =>
                /\ ranges[BandOf(ret.density)][1] = b[1]
                /\ RawLevel(ret.density) = Frac(b[2], 5)
                /\ ret.result = Frac(5 - b[2], 5)
                /\ NoJumpBelow(ret.density[1], b[3])

\* the lookup at exactly 12 veh/mi reported 0.8
C10_Witness ==
    /\ ret.op = "level_of_density"
    /\ ret.density = <<48, 4>>
    /\ ret.result = <<4, 5>>

\* the normalized density the last level-of-service call computed, in lowest terms
DensitySeen ==
    LET n == Density(LoadSeen.total_pcu, ret.segment, OffsetSeen)
    IN Frac(n[1], n[2])

\* score = 1 - (m + (n - low) * 0.2 / (high - low)) for the band low <= n < high of the table
IsOneMinusInterpolated(score, n) ==
    \E i \in 1..Len(ranges) :
        LET low == ranges[i][1]
            high == ranges[i][2]
            m == ranges[i][3]
        IN /\ low * n[2] <= n[1]
           /\ n[1] < high * n[2]
           /\ Frac(score[2] - score[1], score[2]) =
                  Frac(m * n[2] * (high - low) + n[1] - low * n[2], 5 * n[2] * (high - low))

\* C11: for every index state and every query (segment length positive, at least
\* one lane, offset within the segment, PCU values not negative) the level of
\* service returned is the infinite sentinel or a finite score within [0, 1]
\* that equals 1.0 minus the raw level interpolated in the band of the density
C11_ScoreInUnitRange ==
    (IsFront \/ IsAtSegment) =>
        \/ ret.result = Infinity
        \/ /\ ret.result[2] > 0
           /\ 0 <= ret.result[1]
           /\ ret.result[1] <= ret.result[2]
           /\ IsOneMinusInterpolated(ret.result, DensitySeen)

\* a call from the middle of a segment with load ahead gave a score strictly inside (0, 1)
C11_Witness ==
    /\ IsFront
    /\ ret.vehicle_offset_m > 0
    /\ ret.vehicle_offset_m < ret.segment.length
    /\ LoadSeen.total_pcu > 0
    /\ ret.result # Infinity
    /\ 0 < ret.result[1]
    /\ ret.result[1] < ret.result[2]

IsSpeedQuery == ret.op = "get_segment_speed"

\* value is what a segment holding the observations q may yield: "no data" exactly when q is empty
NoDataIffEmpty(value, q) ==
    /\ q = <<>> => (value = None /\ value # <<0, 1>>)
    /\ q # <<>> => value # None

\* C12: a segment with zero observations (never ingested into, or emptied by
\* drop_old) yields None from get_segment_speed and as its value in the result
\* of take_segment_speeds, never a numeric zero; a segment with at least one
\* observation never yields None
C12_NoDataIffEmpty ==
    /\ IsSpeedQuery =>
           NoDataIffEmpty(ret.result, Observations(fcd_by_segment, ret.segment_id))
    /\ IsTake =>
           \A s \in DOMAIN ret.result :
               NoDataIffEmpty(ret.result[s], Observations(fcd_by_segment, s))

\* one drain reported a segment emptied by drop_old as None and another segment with a speed
C12_Witness ==
    /\ IsTake
    /\ \E s, t \in DOMAIN ret.result :
           /\ ret.result[s] = None
           /\ ret.result[t] # None

\* a is b with some elements left out, the others in the order they have in b
IsSubsequence(a, b) ==
    \E f \in [1..Len(a) -> 1..Len(b)] :
        /\ \A i, j \in 1..Len(a) : i < j => f[i] < f[j]
        /\ \A i \in 1..Len(a) : a[i] = b[f[i]]

\* C13: add appends exactly one record at the end of the history of the record's
\* own segment, a repeated observation included, and leaves the history of every
\* other segment as it was (the segment the vehicle occupied before included);
\* drop_old only removes records and keeps the order of the rest; no other
\* operation changes any history
C13_HistoryGrowsAndShrinks ==
    [][/\ ret'.op = "add" =>
            \A s \in AllSegmentIds :
                Observations(fcd_by_segment', s) =
                    IF s = ret'.fcd.segment
                    THEN Append(Observations(fcd_by_segment, s), ret'.fcd)
                    ELSE Observations(fcd_by_segment, s)
       /\ ret'.op = "drop_old" =>
            \A s \in AllSegmentIds :
                IsSubsequence(Observations(fcd_by_segment', s), Observations(fcd_by_segment, s))
       /\ ret'.op \notin {"add", "drop_old"} =>
            \A s \in AllSegmentIds :
                Observations(fcd_by_segment', s) = Observations(fcd_by_segment, s)
      ]_vars

\* add has just appended a record equal to the one before it in the same history
C13_Witness ==
    /\ ret.op = "add"
    /\ LET q == Observations(fcd_by_segment, ret.fcd.segment)
       IN /\ Len(q) >= 2
          /\ q[Len(q)] = ret.fcd
          /\ q[Len(q) - 1] = ret.fcd

\* C14: after any sequence of add, drop_old and take_segment_speeds calls (and of
\* queries), car_to_segment maps every vehicle ever ingested to exactly one
\* segment, the segment of the vehicle's most recently ingested record, and
\* holds no other vehicle
C14_CarToSegmentIsLastIngested ==
    /\ DOMAIN car_to_segment = DOMAIN last_ingested
    /\ \A v \in DOMAIN last_ingested : car_to_segment[v] = last_ingested[v]

\* a vehicle with records on two segments is mapped to the segment of the record
\* add has just ingested, and the vehicle never ingested is not in the map
C14_Witness ==
    /\ ret.op = "add"
    /\ DOMAIN car_to_segment = {ret.fcd.vehicle_id}
    /\ car_to_segment[ret.fcd.vehicle_id] = ret.fcd.segment
    /\ \E s \in SegmentIds \ {ret.fcd.segment} :
           ret.fcd.vehicle_id \in VehiclesIn(Observations(fcd_by_segment, s))

IsRaisedTake == ret.op = "take_segment_speeds raised"

\* C15: take_segment_speeds clears the dirty set only after the speed of every
\* dirty segment has been computed: when the computation of a speed fails midway
\* through the batch, the dirty set still holds every segment that was dirty
\* when the call started
C15_FailedDrainKeepsDirty ==
    IsRaisedTake => ret.pre.modified \subseteq modified_segments

\* the drain failed at its second segment, after the speed of the first was computed
C15_Witness ==
    /\ IsRaisedTake
    /\ ret.done # {}
    /\ ret.failing \notin ret.done
    /\ ret.done \cup {ret.failing} \subseteq modified_segments

\* C16: take_segment_speeds is the only operation that removes a segment from
\* the dirty set: add, drop_old, get_segment_speed, load_ahead and both
\* level-of-service queries never remove an element of modified_segments, so a
\* segment once dirty stays dirty until the next drain
C16_OnlyDrainRemovesDirty ==
    [][ret'.op # "take_segment_speeds" => modified_segments \subseteq modified_segments']_vars

\* a level-of-service query ran on a dirty segment after a drop_old that
\* followed the add: the segment is still dirty
C16_Witness ==
    /\ IsAtSegment
    /\ since_drain = "mixed"
    /\ ret.segment.id \in modified_segments

\* C18: the query operations are read-only: load_ahead, both level-of-service
\* functions and get_segment_speed leave every segment's observation sequence,
\* the vehicle-to-segment map and the dirty set unchanged, so queries between
\* two mutations change neither a later query nor a later drain
C18_QueriesAreReadOnly ==
    [][ret'.op \in {"get_segment_speed", "load_ahead", "level_of_service_in_front_of_vehicle",
                    "level_of_service_in_time_at_segment"} =>
          /\ \A s \in AllSegmentIds :
                 Observations(fcd_by_segment', s) = Observations(fcd_by_segment, s)
          /\ car_to_segment' = car_to_segment
          /\ modified_segments' = modified_segments
      ]_vars

\* get_segment_speed has answered for a segment whose history is not in time order
C18_Witness ==
    /\ IsSpeedQuery
    /\ ret.result # None
    /\ LET q == Observations(fcd_by_segment, ret.segment_id)
       IN /\ Len(q) = 2
          /\ q[1].datetime > q[2].datetime

\* the place in the history q of the observation of vehicle v that counts: of
\* those with the vehicle's maximal datetime, the one ingested last
LastOfLatest(q, v) ==
    LET own == {i \in 1..Len(q) : q[i].vehicle_id = v}
        latest == {i \in own : \A j \in own : q[j].datetime <= q[i].datetime}
    IN CHOOSE i \in latest : \A j \in latest : j <= i

\* C19: the aggregation sort is stable: when a vehicle has several observations
\* on a segment with the same maximal timestamp, the speed get_segment_speed
\* uses for the vehicle is the speed of the one ingested last among them
C19_LastIngestedAmongLatestWins ==
    (IsSpeedQuery /\ Observations(fcd_by_segment, ret.segment_id) # <<>>) =>
        LET q == Observations(fcd_by_segment, ret.segment_id)
            used == [v \in VehiclesIn(q) |-> q[LastOfLatest(q, v)].speed]
        IN ret.result = Frac(SumOver(used), Cardinality(VehiclesIn(q)))

\* two observations of one vehicle with the same datetime and different speeds:
\* the answer is the speed of the second
C19_Witness ==
    /\ IsSpeedQuery
    /\ LET q == Observations(fcd_by_segment, ret.segment_id)
       IN /\ Len(q) = 2
          /\ q[1].vehicle_id = q[2].vehicle_id
          /\ q[1].datetime = q[2].datetime
          /\ q[1].speed # q[2].speed
          /\ ret.result = <<q[2].speed, 1>>

\* a/b <= c/d for a, c >= 0 and b, d > 0, by whole parts and remainders (no products)
RECURSIVE LeqFrac(_, _, _, _)
LeqFrac(a, b, c, d) ==
    IF a \div b # c \div d THEN a \div b < c \div d
    ELSE IF a % b = 0 THEN TRUE
    ELSE IF c % d = 0 THEN FALSE
    ELSE LeqFrac(d, c % d, b, a % b)

\* the level of service after is not better than before: the sentinel stays the
\* sentinel, a finite score becomes the sentinel or a score that is not higher
NotBetter(after, before) ==
    IF before = Infinity THEN after = Infinity
    ELSE after = Infinity \/ LeqFrac(after[1], after[2], before[1], before[2])

\* the queries a level of service is compared on: (time, reference vehicle, offset, tolerance, mode)
FixedQueries == QueryTimes \X {NoVehicle, 1} \X Offsets \X {None} \X BOOLEAN

LevelFor(store, segment, query) ==
    LevelOfService(store, query[1], segment, query[2], query[3], query[4], query[5])

\* C20: the level of service is monotone in the load: for a fixed query (time,
\* segment, reference vehicle, offset, tolerance, counting mode), ingesting one
\* more record on that segment never turns an infinite result into a finite one
\* and never increases a finite score (PCU, length and gap values positive)
C20_MonotoneInLoad ==
    [][ret'.op = "add" =>
          \A segment \in {sg \in Segments : sg.id = ret'.fcd.segment}, query \in FixedQueries :
              NotBetter(LevelFor(fcd_by_segment', segment, query),
                        LevelFor(fcd_by_segment, segment, query))
      ]_vars

\* the store before the last add: the segment's history without its last record
BeforeLastAdd ==
    [fcd_by_segment EXCEPT ![ret.fcd.segment] = SubSeq(@, 1, Len(@) - 1)]

\* the record add has just ingested lowered a finite score of its segment to a lower finite score
C20_Witness ==
    /\ ret.op = "add"
    /\ \E segment \in {sg \in Segments : sg.id = ret.fcd.segment}, query \in FixedQueries :
           LET after == LevelFor(fcd_by_segment, segment, query)
               before == LevelFor(BeforeLastAdd, segment, query)
           IN /\ before # Infinity
              /\ after # Infinity
              /\ after # before
              /\ before[1] < before[2]
              /\ LeqFrac(after[1], after[2], before[1], before[2])

----------------------------------------------------------------------------
(* Claims about the result sink *)

IsAppend == ret.op = "HDF5Writer.append"

\* C17: the result sink is append-only: every successful HDF5Writer.append grows
\* the 'results' dataset by exactly one record, writes the new record at the
\* last position, leaves every record stored before unchanged and flushes the
\* file before it returns; the first append of a writer opened on a file that
\* holds n records writes at position n (the n+1-th slot)
C17_SinkIsAppendOnly ==
    [][ret'.op = "HDF5Writer.append" =>
          /\ Len(hdf'.dataset) = Len(hdf.dataset) + 1
          /\ hdf'.dataset[Len(hdf'.dataset)] = Structured(ret'.record)
          /\ SubSeq(hdf'.dataset, 1, Len(hdf.dataset)) = hdf.dataset
          /\ hdf'.on_disk = hdf'.dataset
          /\ hdf.index = hdf.opened_at =>
                 /\ hdf.opened_at = Len(hdf.on_disk)
                 /\ hdf'.dataset[hdf.opened_at + 1] = Structured(ret'.record)
                 /\ SubSeq(hdf'.on_disk, 1, hdf.opened_at) = hdf.on_disk
      ]_vars

====
